---- MODULE Spec2Model ----
(***************************************************************************)
(* A model of the smart_agent repository: the Groq model client            *)
(* (utils/llm.py), the document extractor (utils/document_processor.py)    *)
(* and the conversation store (utils/db.py).                               *)
(*                                                                         *)
(* A Python str is a sequence of tokens.  A token is either one character  *)
(* of document or model text, or one literal of the source kept whole.     *)
(* A Python value is a record [tag, s]: a str, None, or a raised exception.*)
(***************************************************************************)
EXTENDS Integers, Sequences, FiniteSets, TLC

VARIABLES
    client,      \* GroqLLMClient fields set by __init__
    llm_pc,      \* "idle" | "streaming" | "retry" | "done"
    caller,      \* "none" | "blocking" | "stream": the entry point running
    attempt,     \* loop variable of _handle_rate_limit
    log,         \* the provider's answer to each request issued so far
    delays,      \* the time.sleep arguments so far
    delivered,   \* delta.content of every chunk the provider stream delivered
    yielded,     \* fragments chat_completion_stream has yielded
    caught,      \* the provider outcome an except clause of the entry point caught
    sigReq,      \* number of requests issued when the entry point caught RateLimitError
    result,      \* value returned by chat_completion / how the generator ended
    cfgCall,     \* the last update_config call: its kwargs, the client before it
    file,        \* the uploaded file object (name, size, content, read position)
    doc_pc,      \* "none" | "uploaded" | "processed"
    docCalls,    \* process_document calls made on the uploaded file
    docRun,      \* the last process_document call: value, reads, routines invoked
    docPrev,     \* the value the call before it returned, on the same file object
    conversations, \* rows of table conversations
    messages,    \* rows of table messages, in order of created_at
    nextConvId,  \* next value of the conversations.id sequence
    nextMsgId,   \* next value of the messages.id sequence
    deleted,     \* ids for which delete_conversation has returned True
    dbRet,       \* the last store operation: its name, argument and outcome
    dbTrace,     \* what the last store operation did with its database session
    app_pc,      \* where the script of app.py is: "start" | "idle" | "streaming" | "rerun"
    conversation_id, \* st.session_state.conversation_id (0 is None)
    history,     \* st.session_state.messages
    turns,       \* turns submitted so far
    turn,        \* the turn the script run is handling, or has just handled
    notices      \* st.success / st.warning / st.error calls of the script run

llmVars == <<client, llm_pc, caller, attempt, log, delays, delivered, yielded,
             caught, sigReq, result>>

cfgVars == <<cfgCall>>

docVars == <<file, doc_pc, docCalls, docRun, docPrev>>

dbVars == <<conversations, messages, nextConvId, nextMsgId, deleted, dbRet,
           dbTrace>>

appVars == <<app_pc, conversation_id, history, turns, turn, notices>>

vars == <<client, llm_pc, caller, attempt, log, delays, delivered, yielded,
          caught, sigReq, result, cfgCall, file, doc_pc, docCalls, docRun,
          docPrev,
          conversations, messages, nextConvId, nextMsgId, deleted, dbRet,
          dbTrace, app_pc, conversation_id, history, turns, turn, notices>>

----------------------------------------------------------------------------
(* Bounds of the model *)

MaxChunks == 3
MaxPages == 2
MaxBytes == 2
MaxCalls == 2
MaxConvs == 2
MaxMsgs == 3
MaxTurns == 1

----------------------------------------------------------------------------
(* Python values and str operations *)

PyStr(s) == [tag |-> "str", s |-> s]
PyNone == [tag |-> "None", s |-> <<>>]
PyRaise(e) == [tag |-> "raise", s |-> <<e>>]
Pending == [tag |-> "pending", s |-> <<>>]

\* bool(v) for a value that is None or a str
Truthy(v) == v.tag = "str" /\ v.s # <<>>

Whitespace == {" ", "\n", "\n\n"}

RECURSIVE LStrip(_)
LStrip(s) ==
    IF s # <<>> /\ Head(s) \in Whitespace THEN LStrip(Tail(s)) ELSE s

RECURSIVE RStrip(_)
RStrip(s) ==
    IF s # <<>> /\ s[Len(s)] \in Whitespace
    THEN RStrip(SubSeq(s, 1, Len(s) - 1))
    ELSE s

\* str.strip()
Strip(s) == RStrip(LStrip(s))

RECURSIVE Concat(_)
Concat(ss) == IF ss = <<>> THEN <<>> ELSE Head(ss) \o Concat(Tail(ss))

RECURSIVE Pow2(_)
Pow2(n) == IF n = 0 THEN 1 ELSE 2 * Pow2(n - 1)

----------------------------------------------------------------------------
(* utils/llm.py: literals *)

MsgAuth ==
    <<"I apologize, but there's an authentication issue. Please check your API configuration.">>
MsgForbidden ==
    <<"I apologize, but I don't have permission to access this service.">>
MsgHighDemand ==
    <<"I apologize, but I'm currently experiencing high demand. Please try again in a few moments.">>
MsgUnavailable ==
    <<"I apologize, but the service is currently experiencing technical difficulties. Please try again later.">>
MsgEmptyResponse ==
    <<"I apologize, but I received an empty response. Please try again.">>
MsgInvalidFormat ==
    <<"I apologize, but I received an invalid response format.">>
MsgValidateError ==
    <<"I apologize, but I encountered an error processing the response.">>
\* f"I apologize, but I encountered an error: {str(e)}"
MsgError(desc) == <<"I apologize, but I encountered an error: ", desc>>

----------------------------------------------------------------------------
(* The provider: what one request, or one step of a stream, can produce *)

Texts == {<<>>, <<" ">>, <<"a">>, <<" ", "a", " ">>}
Contents == {PyNone} \cup {PyStr(t) : t \in Texts}

\* a completion object: choices present and non-empty, choices[0].message
\* present, choices[0].message.content
Responses ==
    [hasChoices : BOOLEAN, hasMessage : BOOLEAN, content : Contents]

NoResponse == [hasChoices |-> FALSE, hasMessage |-> FALSE, content |-> PyNone]

StatusCodes == {400, 401, 403, 429, 499, 500, 503}

Outcome(kind, hasStatus, status, desc, resp) ==
    [kind |-> kind, hasStatus |-> hasStatus, status |-> status, desc |-> desc,
     resp |-> resp]

NoOutcome == Outcome("none", FALSE, 0, "", NoResponse)
RateLimitError == Outcome("ratelimit", TRUE, 429, "rate limited", NoResponse)
\* APIStatusError carries status_code; APIConnectionError (an APIError) does not
APIErrors ==
    {Outcome("api", TRUE, c, "api failure", NoResponse) : c \in StatusCodes}
    \cup {Outcome("api", FALSE, 0, "connection error", NoResponse)}
OtherErrors == {Outcome("exception", FALSE, 0, "boom", NoResponse)}
Errors == {RateLimitError} \cup APIErrors \cup OtherErrors

\* outcomes of client.chat.completions.create(..., stream=False)
BlockingOutcomes ==
    {Outcome("response", FALSE, 0, "", r) : r \in Responses} \cup Errors

\* outcomes of client.chat.completions.create(..., stream=True)
OpenOutcomes == {Outcome("response", FALSE, 0, "", NoResponse)} \cup Errors

\* one step of `for chunk in response`: a chunk, the end of the stream, or an
\* exception (from the transport, or from chunk.choices[0] of a chunk that
\* has no choices)
ChunkEvents ==
    {Outcome("chunk", FALSE, 0, "", [NoResponse EXCEPT !.content = c]) :
        c \in Contents}
    \cup {Outcome("end", FALSE, 0, "", NoResponse)} \cup Errors

----------------------------------------------------------------------------
(* utils/llm.py: GroqLLMClient *)

DefaultMaxRetries == 3
DefaultRetryDelay == 1
DefaultMaxTokens == 4096

\* __init__ with a credential available
NewClient ==
    [api_key |-> "key", model |-> "llama-3.3-70b-versatile",
     max_retries |-> DefaultMaxRetries, retry_delay |-> DefaultRetryDelay,
     max_tokens |-> DefaultMaxTokens, temperature |-> "0.7"]

\* _validate_response
ValidateResponse(r) ==
    IF r.hasChoices
    THEN IF ~r.hasMessage
         THEN PyStr(MsgValidateError)
         ELSE IF Truthy(r.content)
              THEN PyStr(Strip(r.content.s))
              ELSE PyStr(MsgEmptyResponse)
    ELSE PyStr(MsgInvalidFormat)

\* _handle_api_error: error_code is None when the error has no status_code,
\* and None >= 500 raises TypeError
HandleApiError(e) ==
    IF e.hasStatus /\ e.status = 401 THEN PyStr(MsgAuth)
    ELSE IF e.hasStatus /\ e.status = 403 THEN PyStr(MsgForbidden)
    ELSE IF e.hasStatus /\ e.status = 429 THEN PyStr(MsgHighDemand)
    ELSE IF ~e.hasStatus THEN PyRaise("TypeError")
    ELSE IF e.status >= 500 THEN PyStr(MsgUnavailable)
    ELSE PyStr(MsgError(e.desc))

\* wait_time = self.retry_delay * (2 ** attempt)
WaitTimeLinear(delay, k) == delay * (k + 1)
WaitTime(delay, k) == delay * Pow2(k)

\* if attempt == self.max_retries - 1
IsLastAttemptAlways(k, max) == TRUE
IsLastAttempt(k, max) == k = max - 1

\* if chunk.choices[0].delta.content:
YieldsStripped(content) == Truthy(content) /\ Strip(content.s) # <<>>
Yields(content) == Truthy(content)

\* the entry point ends with value v: chat_completion returns it (or raises);
\* chat_completion_stream yields it as its last fragment (or raises) and ends
EndWith(v) ==
    /\ llm_pc' = "done"
    /\ IF caller' = "stream"
       THEN /\ yielded' = IF v.tag = "str" THEN Append(yielded, v.s) ELSE yielded
            /\ result' = IF v.tag = "raise" THEN v ELSE PyNone
       ELSE /\ yielded' = yielded
            /\ result' = v

\* the except clauses of chat_completion and chat_completion_stream, and the
\* entry into _handle_rate_limit
OnError(o) ==
    /\ caught' = o
    /\ sigReq' = IF o.kind = "ratelimit" THEN Len(log') ELSE sigReq
    /\ IF o.kind = "ratelimit"
       THEN IF client.max_retries > 0
            THEN /\ llm_pc' = "retry"
                 /\ UNCHANGED <<yielded, result>>
            ELSE EndWith(PyStr(MsgHighDemand))
       ELSE IF o.kind = "api"
            THEN EndWith(HandleApiError(o))
            ELSE EndWith(PyStr(MsgError(o.desc)))

\* chat_completion up to its return or to the first sleep of _handle_rate_limit
ChatCompletion(o) ==
    /\ llm_pc = "idle"
    /\ caller' = "blocking"
    /\ log' = <<o>>
    /\ IF o.kind = "response"
       THEN /\ EndWith(ValidateResponse(o.resp))
            /\ UNCHANGED <<caught, sigReq>>
       ELSE OnError(o)
    /\ UNCHANGED <<client, attempt, delays, delivered>>
    /\ UNCHANGED <<cfgVars, docVars, dbVars, appVars>>

\* chat_completion_stream from the first next() to the open stream
StreamOpenCall(o) ==
    /\ llm_pc = "idle"
    /\ caller' = "stream"
    /\ log' = <<o>>
    /\ IF o.kind = "response"
       THEN /\ llm_pc' = "streaming"
            /\ UNCHANGED <<caught, sigReq, yielded, result>>
       ELSE OnError(o)
    /\ UNCHANGED <<client, attempt, delays, delivered>>

\* chat_completion_stream started with nothing else going on
StreamOpen(o) ==
    /\ StreamOpenCall(o)
    /\ UNCHANGED <<cfgVars, docVars, dbVars, appVars>>

\* one iteration of `for chunk in response`
StreamChunkCall(ev) ==
    /\ llm_pc = "streaming"
    /\ ev.kind = "chunk" => Len(delivered) < MaxChunks
    /\ UNCHANGED <<client, caller, attempt, delays, log>>
    /\ IF ev.kind = "chunk"
       THEN /\ delivered' = Append(delivered, ev.resp.content)
            /\ yielded' = IF Yields(ev.resp.content)
                          THEN Append(yielded, ev.resp.content.s)
                          ELSE yielded
            /\ UNCHANGED <<llm_pc, caught, sigReq, result>>
       ELSE IF ev.kind = "end"
            THEN /\ llm_pc' = "done"
                 /\ result' = PyNone
                 /\ UNCHANGED <<delivered, yielded, caught, sigReq>>
            ELSE /\ OnError(ev)
                 /\ UNCHANGED delivered

\* the generator resumed with nothing else going on
StreamChunk(ev) ==
    /\ StreamChunkCall(ev)
    /\ UNCHANGED <<cfgVars, docVars, dbVars, appVars>>

\* one iteration of the loop of _handle_rate_limit: sleep, request, outcome
RetryCall(o) ==
    /\ llm_pc = "retry"
    /\ delays' = Append(delays, WaitTime(client.retry_delay, attempt))
    /\ log' = Append(log, o)
    /\ UNCHANGED <<client, caller, delivered, caught, sigReq>>
    /\ IF o.kind = "response"
       THEN /\ EndWith(ValidateResponse(o.resp))
            /\ UNCHANGED attempt
       ELSE IF o.kind = "ratelimit"
            THEN IF IsLastAttempt(attempt, client.max_retries)
                 THEN /\ EndWith(PyStr(MsgHighDemand))
                      /\ UNCHANGED attempt
                 ELSE /\ attempt' = attempt + 1
                      /\ UNCHANGED <<llm_pc, yielded, result>>
            ELSE /\ EndWith(PyStr(MsgError(o.desc)))
                 /\ UNCHANGED attempt

\* a retry with nothing else going on
Retry(o) ==
    /\ RetryCall(o)
    /\ UNCHANGED <<cfgVars, docVars, dbVars, appVars>>

LLMIdle ==
    /\ llm_pc = "idle"
    /\ caller = "none"
    /\ attempt = 0
    /\ log = <<>>
    /\ delays = <<>>
    /\ delivered = <<>>
    /\ yielded = <<>>
    /\ caught = NoOutcome
    /\ sigReq = 0
    /\ result = Pending

\* the caller has its value (or has drained the generator); the next call starts
LLMReturn ==
    /\ llm_pc = "done"
    /\ llm_pc' = "idle"
    /\ caller' = "none"
    /\ attempt' = 0
    /\ log' = <<>>
    /\ delays' = <<>>
    /\ delivered' = <<>>
    /\ yielded' = <<>>
    /\ caught' = NoOutcome
    /\ sigReq' = 0
    /\ result' = Pending
    /\ UNCHANGED client
    /\ UNCHANGED <<cfgVars, docVars, dbVars, appVars>>

\* **kwargs of update_config: each key is absent or carries a value
NotGiven(v) == [given |-> FALSE, v |-> v]
Given(v) == [given |-> TRUE, v |-> v]
KwArgs ==
    [max_tokens : {NotGiven(0), Given(100), Given(8192)},
     temperature : {NotGiven(""), Given("0.2")},
     model : {NotGiven(""), Given("mixtral-8x7b-32768")},
     max_retries : {NotGiven(0), Given(5)},
     api_key : {NotGiven(""), Given("other key")}]

NoKwArgs ==
    [max_tokens |-> NotGiven(0), temperature |-> NotGiven(""),
     model |-> NotGiven(""), max_retries |-> NotGiven(0),
     api_key |-> NotGiven("")]

NoCfgCall == [called |-> FALSE, kwargs |-> NoKwArgs, before |-> NewClient]

\* the three `if '<key>' in kwargs: self.<key> = kwargs['<key>']` of
\* update_config
MergeConfigAnyKey(c, kw) ==
    [c EXCEPT
        !.max_tokens = IF kw.max_tokens.given THEN kw.max_tokens.v ELSE @,
        !.temperature = IF kw.temperature.given THEN kw.temperature.v ELSE @,
        !.model = IF kw.model.given THEN kw.model.v ELSE @,
        !.max_retries = IF kw.max_retries.given THEN kw.max_retries.v ELSE @,
        !.api_key = IF kw.api_key.given THEN kw.api_key.v ELSE @]
MergeConfig(c, kw) ==
    [c EXCEPT
        !.max_tokens = IF kw.max_tokens.given THEN kw.max_tokens.v ELSE @,
        !.temperature = IF kw.temperature.given THEN kw.temperature.v ELSE @,
        !.model = IF kw.model.given THEN kw.model.v ELSE @]

\* update_config(**kwargs), called while no request is in progress
UpdateConfig(kw) ==
    /\ llm_pc = "idle"
    /\ client' = MergeConfig(client, kw)
    /\ cfgCall' = [called |-> TRUE, kwargs |-> kw, before |-> client]
    /\ UNCHANGED <<llm_pc, caller, attempt, log, delays, delivered, yielded,
                   caught, sigReq, result>>
    /\ UNCHANGED <<docVars, dbVars, appVars>>

LLMInit ==
    /\ client = NewClient
    /\ cfgCall = NoCfgCall
    /\ LLMIdle

LLMNext ==
    \/ \E o \in BlockingOutcomes : ChatCompletion(o)
    \/ \E o \in OpenOutcomes : StreamOpen(o)
    \/ \E ev \in ChunkEvents : StreamChunk(ev)
    \/ \E o \in BlockingOutcomes : Retry(o)
    \/ LLMReturn

CfgNext == \E kw \in KwArgs : UpdateConfig(kw)

----------------------------------------------------------------------------
(* utils/document_processor.py: literals *)

\* f"Unsupported file format: {file_extension}. Please upload a PDF, image, or text file."
MsgUnsupported(ext) ==
    <<"Unsupported file format: ", ext, ". Please upload a PDF, image, or text file.">>
\* f"Error processing document: {str(e)}"
MsgDocError(desc) == <<"Error processing document: ", desc>>
MsgNoPdfTextAsEmptyFile == <<"The uploaded file appears to be empty.">>
MsgNoPdfText == <<"No text content could be extracted from this PDF file.">>
\* f"Error extracting text from PDF: {str(e)}"
MsgPdfError(desc) == <<"Error extracting text from PDF: ", desc>>
\* f"Error processing PDF file: {str(e)}"
MsgPdfUnexpected(desc) == <<"Error processing PDF file: ", desc>>
MsgOcr ==
    <<"Image text extraction (OCR) is not yet implemented. Please upload a PDF or text file instead.">>
MsgSpreadsheet ==
    <<"Spreadsheet text extraction is not yet implemented. Please export as CSV or upload a PDF file instead.">>
MsgEmptyFile == <<"The uploaded file appears to be empty.">>
\* f"Error reading file content: {str(e)}"
MsgReadError(desc) == <<"Error reading file content: ", desc>>

\* self.supported_formats
PdfFormats == {".pdf"}
ImageFormats == {".png", ".jpg", ".jpeg", ".gif", ".bmp", ".tiff"}
TextFormats == {".txt", ".csv", ".md"}
SpreadsheetFormats == {".xlsx", ".xls", ".ods"}

\* self.max_file_size
MaxFileSize == 50 * 1024 * 1024
MaxNameLen == 255
SuspiciousExtensions == {".exe", ".bat", ".cmd", ".com", ".scr", ".vbs", ".js"}

----------------------------------------------------------------------------
(* Uploaded files *)

\* A file name is None or a str, written as its dot-separated segments:
\* <<"report", "PDF">> is "report.PDF", <<"", "pdf">> is ".pdf", <<"">> is "".
\* The segments x251 and x300 stand for 251 and 300 letters x.
NoName == [present |-> FALSE, segs |-> <<>>]
Name(segs) == [present |-> TRUE, segs |-> segs]

SegLen(seg) ==
    CASE seg = "" -> 0
      [] seg = "x251" -> 251
      [] seg = "x300" -> 300
      [] seg \in {"js", "md"} -> 2
      [] seg = "xlsx" -> 4
      [] seg = "report" -> 6
      [] OTHER -> 3

\* str.lower() of a segment
LowerSeg(seg) ==
    CASE seg = "PDF" -> "pdf"
      [] seg = "EXE" -> "exe"
      [] seg = "TXT" -> "txt"
      [] seg = "Js" -> "js"
      [] OTHER -> seg

RECURSIVE SumLen(_)
SumLen(segs) ==
    IF segs = <<>> THEN 0 ELSE SegLen(Head(segs)) + SumLen(Tail(segs))

\* len(uploaded_file.name)
NameLen(name) == SumLen(name.segs) + (Len(name.segs) - 1)

PdfNames == {Name(<<"report", "pdf">>), Name(<<"report", "PDF">>)}

OtherNames ==
    {NoName, Name(<<"">>), Name(<<"report">>), Name(<<"", "pdf">>),
     Name(<<"report", "">>), Name(<<"report", "xyz">>),
     Name(<<"report", "txt">>), Name(<<"report", "TXT">>),
     Name(<<"report", "csv">>), Name(<<"report", "md">>),
     Name(<<"report", "png">>), Name(<<"report", "xlsx">>),
     Name(<<"x251", "txt">>), Name(<<"x300", "txt">>),
     Name(<<"report", "pdf", "exe">>), Name(<<"report", "EXE">>),
     Name(<<"report", "Js">>)}
    \cup {Name(<<"report", e>>) :
            e \in {"exe", "bat", "cmd", "com", "scr", "vbs", "js"}}

\* uploaded_file.size: an int, or a value the comparison with an int raises on
Size(n) == [ok |-> TRUE, n |-> n]
BadSize == [ok |-> FALSE, n |-> 0]
Sizes == {Size(0), Size(1024), Size(MaxFileSize), Size(MaxFileSize + 1), BadSize}

Bytes == {32, 97, 233}
ByteSeqs == UNION {[1..n -> Bytes] : n \in 0..MaxBytes}

\* page.extract_text() of one page: None or a str
PageTexts == {PyNone, PyStr(<<" ">>), PyStr(<<" ", "a">>), PyStr(<<"b">>)}

\* one PDF library on one file: it raises, or gives the text of each page
PdfRaises == [raises |-> TRUE, desc |-> "bad pdf", pages |-> <<>>]
PdfPasses ==
    {PdfRaises}
    \cup {[raises |-> FALSE, desc |-> "", pages |-> ps] :
            ps \in UNION {[1..n -> PageTexts] : n \in 0..MaxPages}}

IoDesc == "I/O operation on closed file"

NoFile ==
    [name |-> NoName, size |-> Size(0), bytes |-> <<>>, broken |-> FALSE,
     pos |-> 0, plumber |-> PdfRaises, pypdf |-> PdfRaises, libEnd |-> 0]

\* files the PDF libraries can open, under a PDF name
PdfFiles ==
    {[name |-> n, size |-> sz, bytes |-> <<97, 97>>, broken |-> FALSE, pos |-> 0,
      plumber |-> p1, pypdf |-> p2, libEnd |-> e] :
        n \in PdfNames, sz \in {Size(1024), Size(MaxFileSize + 1)},
        p1 \in PdfPasses, p2 \in PdfPasses, e \in 0..2}

\* files that are no PDF, under any name; broken: read() and seek() raise
PlainFiles ==
    {[name |-> n, size |-> sz, bytes |-> b, broken |-> br, pos |-> 0,
      plumber |-> PdfRaises, pypdf |-> PdfRaises, libEnd |-> 0] :
        n \in OtherNames \cup PdfNames, sz \in Sizes, b \in ByteSeqs,
        br \in BOOLEAN}

Files == PdfFiles \cup PlainFiles

----------------------------------------------------------------------------
(* utils/document_processor.py: DocumentProcessor *)

\* what one call did: the value it returned, where it left the read position,
\* how many times the content was read, the format-specific routines invoked,
\* and the position at which the fallback PDF reader was given the stream
NoFallback == [ran |-> FALSE, pos |-> 0]
Run(value, pos, reads, invoked, fallback) ==
    [value |-> value, pos |-> pos, reads |-> reads, invoked |-> invoked,
     fallback |-> fallback]
\* a call and the read position it started at
Call(r, start) == [run |-> r, start |-> start]
NoCall == Call(Run(Pending, 0, 0, {}, NoFallback), 0)

\* os.path.splitext(filename)[1]: the last dot and what follows it, unless only
\* dots precede it; then str.lower()
LowerExt(segs) ==
    IF Len(segs) >= 2 /\ \E i \in 1..(Len(segs) - 1) : segs[i] # ""
    THEN "." \o LowerSeg(segs[Len(segs)])
    ELSE ""

\* _get_file_extension: splitext of None raises, and the except returns ""
GetFileExtension(name) == IF name.present THEN LowerExt(name.segs) ELSE ""

\* if uploaded_file.size > self.max_file_size (False when the test raises)
SizeOk(f) == f.size.ok /\ ~(f.size.n > MaxFileSize)

\* if not uploaded_file.name or len(uploaded_file.name) > 255
NameOkAlways(f) == TRUE
NameOk(f) ==
    /\ f.name.present
    /\ f.name.segs # <<"">>
    /\ ~(NameLen(f.name) > MaxNameLen)

\* if file_extension.lower() in suspicious_extensions
ExtOk(f) == GetFileExtension(f.name) \notin SuspiciousExtensions

\* _validate_file
ValidateFile(f) == SizeOk(f) /\ NameOk(f) /\ ExtOk(f)

\* bytes.decode: utf-8, and latin-1 when that raises UnicodeDecodeError
Chr(b) == CASE b = 32 -> " " [] b = 97 -> "a" [] OTHER -> "e-acute"
Utf8Valid(bs) == \A i \in 1..Len(bs) : bs[i] < 128
Utf8Decode(bs) == [i \in 1..Len(bs) |-> Chr(bs[i])]
Latin1Decode(bs) == [i \in 1..Len(bs) |-> Chr(bs[i])]
Decode(bs) == IF Utf8Valid(bs) THEN Utf8Decode(bs) ELSE Latin1Decode(bs)

\* uploaded_file.read(): the bytes from the read position to the end
ReadRest(f) == SubSeq(f.bytes, f.pos + 1, Len(f.bytes))

\* except Exception as e: return f"Error reading file content: {str(e)}"
TextReadFailedUncaught(desc) == PyRaise(desc)
TextReadFailed(desc) == PyStr(MsgReadError(desc))

\* extract_text_from_file
ExtractTextFromFile(f) ==
    IF f.broken
    THEN Run(TextReadFailed(IoDesc), f.pos, 0, {"extract_text_from_file"},
             NoFallback)
    ELSE LET text == Decode(ReadRest(f))
         IN  Run(IF Strip(text) # <<>> THEN PyStr(Strip(text))
                                        ELSE PyStr(MsgEmptyFile),
                 Len(f.bytes), 1, {"extract_text_from_file"}, NoFallback)

\* extract_text_from_image, extract_text_from_spreadsheet
ExtractTextFromImage(f) ==
    Run(PyStr(MsgOcr), f.pos, 0, {"extract_text_from_image"}, NoFallback)
ExtractTextFromSpreadsheet(f) ==
    Run(PyStr(MsgSpreadsheet), f.pos, 0, {"extract_text_from_spreadsheet"},
        NoFallback)

\* text_content.append(page_text.strip()) for each page with `if page_text:`
RECURSIVE TextContent(_)
TextContent(pages) ==
    IF pages = <<>> THEN <<>>
    ELSE IF Truthy(Head(pages))
         THEN <<Strip(Head(pages).s)>> \o TextContent(Tail(pages))
         ELSE TextContent(Tail(pages))

\* "\n\n".join(text_content)
RECURSIVE Join(_)
Join(ts) ==
    IF ts = <<>> THEN <<>>
    ELSE IF Len(ts) = 1 THEN Head(ts)
         ELSE Head(ts) \o <<"\n\n">> \o Join(Tail(ts))

\* uploaded_file.seek(0)
NoSeek(pos) == pos
SeekStart(pos) == 0

\* the PyPDF2 fallback of extract_text_from_pdf, entered at read position pos
PdfFallback(f, pos, reads) ==
    IF f.broken
    THEN Run(PyStr(MsgPdfError(IoDesc)), pos, reads, {"extract_text_from_pdf"},
             NoFallback)
    ELSE LET at == [ran |-> TRUE, pos |-> SeekStart(pos)]
         IN  IF f.pypdf.raises
             THEN Run(PyStr(MsgPdfError(f.pypdf.desc)), f.libEnd, reads + 1,
                      {"extract_text_from_pdf"}, at)
             ELSE IF TextContent(f.pypdf.pages) # <<>>
                  THEN Run(PyStr(Join(TextContent(f.pypdf.pages))), f.libEnd,
                           reads + 1, {"extract_text_from_pdf"}, at)
                  ELSE Run(PyStr(MsgNoPdfText), f.libEnd, reads + 1,
                           {"extract_text_from_pdf"}, at)

\* extract_text_from_pdf: pdfplumber, then the fallback
ExtractTextFromPdf(f) ==
    IF f.broken
    THEN PdfFallback(f, f.pos, 0)
    ELSE IF ~f.plumber.raises /\ TextContent(f.plumber.pages) # <<>>
         THEN Run(PyStr(Join(TextContent(f.plumber.pages))), f.libEnd, 1,
                  {"extract_text_from_pdf"}, NoFallback)
         ELSE PdfFallback(f, f.libEnd, 1)

\* the dispatch of process_document
Dispatch(f) ==
    LET ext == GetFileExtension(f.name)
    IN  IF ext \in PdfFormats THEN ExtractTextFromPdf(f)
        ELSE IF ext \in ImageFormats THEN ExtractTextFromImage(f)
        ELSE IF ext \in TextFormats THEN ExtractTextFromFile(f)
        ELSE IF ext \in SpreadsheetFormats THEN ExtractTextFromSpreadsheet(f)
        ELSE Run(PyStr(MsgUnsupported(ext)), f.pos, 0, {}, NoFallback)

\* process_document, with its except Exception
ProcessDocumentRun(f) ==
    IF ~ValidateFile(f)
    THEN Run(PyNone, f.pos, 0, {}, NoFallback)
    ELSE LET r == Dispatch(f)
         IN  IF r.value.tag = "raise"
             THEN [r EXCEPT !.value = PyStr(MsgDocError(r.value.s[1]))]
             ELSE r

\* st.file_uploader hands over a new file, positioned at its start
Upload(f) ==
    /\ doc_pc = "none"
    /\ file' = f
    /\ doc_pc' = "uploaded"
    /\ docCalls' = 0
    /\ docRun' = NoCall
    /\ docPrev' = Pending
    /\ UNCHANGED <<llmVars, cfgVars, dbVars, appVars>>

\* process_document(uploaded_file)
ProcessDocument ==
    /\ doc_pc \in {"uploaded", "processed"}
    /\ docCalls < MaxCalls
    /\ LET r == ProcessDocumentRun(file)
       IN  /\ docRun' = Call(r, file.pos)
           /\ file' = [file EXCEPT !.pos = r.pos]
    /\ docPrev' = docRun.run.value
    /\ doc_pc' = "processed"
    /\ docCalls' = docCalls + 1
    /\ UNCHANGED <<llmVars, cfgVars, dbVars, appVars>>

\* the user removes the file from the uploader
RemoveFile ==
    /\ doc_pc = "processed"
    /\ file' = NoFile
    /\ doc_pc' = "none"
    /\ docCalls' = 0
    /\ docRun' = NoCall
    /\ docPrev' = Pending
    /\ UNCHANGED <<llmVars, cfgVars, dbVars, appVars>>

DocInit ==
    /\ file = NoFile
    /\ doc_pc = "none"
    /\ docCalls = 0
    /\ docRun = NoCall
    /\ docPrev = Pending

DocNext ==
    \/ doc_pc = "none" /\ \E f \in Files : Upload(f)
    \/ ProcessDocument
    \/ RemoveFile

----------------------------------------------------------------------------
(* utils/db.py: the conversation store *)

SessionIds == {"s1", "s2"}
Roles == {"user", "assistant"}
\* ids a caller may pass: every id the sequence can have issued
ConvIds == 1..MaxConvs

\* get_conversation_messages(conversation_id, limit=50)
DefaultLimit == 50

\* what can go wrong in one operation: nothing, get_db_session raises,
\* db.commit raises, or a db.query(...) call raises
Faults == {"none", "connect", "commit"}
ReadFaults == {"none", "connect", "query"}
WriteFaults == {"none", "connect", "query", "commit"}

\* Conversation.metadata values
Metadatas == {"{}", "{k: v}"}

Ret(op, arg, kind, id, bool, list, n) ==
    [op |-> op, arg |-> arg, kind |-> kind, id |-> id, bool |-> bool,
     list |-> list, n |-> n]
NoRet == Ret("none", 0, "none", 0, FALSE, <<>>, 0)
\* the operation raised: get_db_session failed and the handlers then read the
\* unbound name db, or the except clause re-raised after the rollback
Raised(op, arg) == Ret(op, arg, "raise", 0, FALSE, <<>>, 0)
\* the operation returned None
RetNone(op, arg) == Ret(op, arg, "None", 0, FALSE, <<>>, 0)

\* What one operation did with its session, in order: "open" (get_db_session
\* returned a session), "connect!" (it raised), the statements run on the
\* session ("query", "add", "set", "delete", "commit", "refresh"; with "!"
\* the statement raised), "rollback", "close", and "unbound!" (`if db:`
\* raised UnboundLocalError because db was never assigned).

\* db = get_db_session()
Acquire(fault) == IF fault = "connect" THEN <<"connect!">> ELSE <<"open">>

\* db is bound once get_db_session has returned
Bound(tr) == tr[1] = "open"

\* the statement raised: the rest of the try block is skipped
Failed(tr) == \E i \in 1..Len(tr) : tr[i] \in {"connect!", "query!", "commit!"}

\* one statement of the try block, skipped once an earlier one has raised
Then(tr, stmt) == IF Failed(tr) THEN tr ELSE Append(tr, stmt)

\* except Exception as e: ... if db: db.rollback()   (the write operations)
ExceptRollback(tr) ==
    IF ~Failed(tr) THEN tr
    ELSE IF Bound(tr) THEN Append(tr, "rollback") ELSE Append(tr, "unbound!")

\* finally: if db: db.close()
FinallyLeavesOpen(tr) ==
    IF Bound(tr) THEN (IF Failed(tr) THEN tr ELSE Append(tr, "close"))
    ELSE Append(tr, "unbound!")
FinallyClose(tr) ==
    IF Bound(tr) THEN Append(tr, "close") ELSE Append(tr, "unbound!")

\* the handlers raised UnboundLocalError: the operation raises whatever its
\* except clause was about to return
Unbound(tr) == \E i \in 1..Len(tr) : tr[i] = "unbound!"

ConvExists(c) == \E cv \in conversations : cv.id = c

\* ForeignKey('conversations.id'), nullable=False: the insert is refused
\* unless the conversation row exists
ForeignKeyOk(c) == ConvExists(c)

\* session_id = Column(String(255), unique=True, nullable=False)
SessionIdFree(sid) == \A cv \in conversations : cv.session_id # sid

MessagesOf(msgs, c) == SelectSeq(msgs, LAMBDA m : m.conversation_id = c)

\* relationship(..., cascade="all, delete-orphan"): db.delete(conversation)
\* deletes the conversation's messages with it
NoCascade(msgs, c) == msgs
CascadeDelete(msgs, c) == SelectSeq(msgs, LAMBDA m : m.conversation_id # c)

\* .order_by(Message.created_at.asc()).limit(limit).all(), as dicts
QueryMessages(msgs, c, limit) ==
    LET rows == MessagesOf(msgs, c)
        k == IF Len(rows) < limit THEN Len(rows) ELSE limit
    IN  [i \in 1..k |->
            [id |-> rows[i].id, role |-> rows[i].role,
             content |-> rows[i].content, file_data |-> rows[i].file_data]]

\* create_conversation(session_id): the commit raises on a database error and
\* on a session_id already stored
CreateConversationCall(sid, fault) ==
    /\ nextConvId <= MaxConvs
    /\ LET commit == IF fault = "none" /\ SessionIdFree(sid)
                     THEN "commit" ELSE "commit!"
           tr == FinallyClose(ExceptRollback(
                     Then(Then(Then(Acquire(fault), "add"), commit), "refresh")))
       IN  /\ dbTrace' = tr
           /\ IF ~Failed(tr)
              THEN /\ conversations' =
                         conversations \cup
                             {[id |-> nextConvId, session_id |-> sid,
                               metadata |-> "{}"]}
                   /\ nextConvId' = nextConvId + 1
                   /\ dbRet' = Ret("create_conversation", 0, "id", nextConvId,
                                   FALSE, <<>>, 0)
              ELSE /\ dbRet' = Raised("create_conversation", 0)
                   /\ UNCHANGED <<conversations, nextConvId>>
    /\ UNCHANGED <<messages, nextMsgId, deleted>>

\* create_conversation called on its own
CreateConversation(sid, fault) ==
    /\ CreateConversationCall(sid, fault)
    /\ UNCHANGED <<llmVars, cfgVars, docVars, appVars>>

\* file_data: None, or the bytes handed over
NoData == [present |-> FALSE, bytes |-> <<>>]
Data(bs) == [present |-> TRUE, bytes |-> bs]

\* save_message(conversation_id, role, content, file_data): the commit raises
\* on a database error and on a conversation_id that is not stored
SaveMessageCall(c, role, content, file_data, fault) ==
    /\ nextMsgId <= MaxMsgs
    /\ LET commit == IF fault = "none" /\ ForeignKeyOk(c)
                     THEN "commit" ELSE "commit!"
           tr == FinallyClose(ExceptRollback(
                     Then(Then(Then(Acquire(fault), "add"), commit), "refresh")))
       IN  /\ dbTrace' = tr
           /\ IF ~Failed(tr)
              THEN /\ messages' =
                         Append(messages,
                                [id |-> nextMsgId, conversation_id |-> c,
                                 role |-> role, content |-> content,
                                 file_data |-> file_data])
                   /\ nextMsgId' = nextMsgId + 1
                   /\ dbRet' = Ret("save_message", c, "id", nextMsgId, FALSE,
                                   <<>>, 0)
              ELSE /\ dbRet' = Raised("save_message", c)
                   /\ UNCHANGED <<messages, nextMsgId>>
    /\ UNCHANGED <<conversations, nextConvId, deleted>>

\* save_message(conversation_id, role, content) called on its own
SaveMessage(c, role, fault) ==
    /\ SaveMessageCall(c, role, <<"text">>, NoData, fault)
    /\ UNCHANGED <<llmVars, cfgVars, docVars, appVars>>

\* the try block of update_conversation_metadata and delete_conversation:
\* the query, and for a row found the change and the commit
FindAndCommit(c, change, fault) ==
    LET q == Then(Acquire(fault), IF fault = "query" THEN "query!" ELSE "query")
    IN  IF ConvExists(c)
        THEN Then(Then(q, change), IF fault = "commit" THEN "commit!" ELSE "commit")
        ELSE q

\* delete_conversation(conversation_id)
DeleteConversation(c, fault) ==
    /\ LET tr == FinallyClose(ExceptRollback(FindAndCommit(c, "delete", fault)))
       IN  /\ dbTrace' = tr
           /\ IF Unbound(tr)
              THEN /\ dbRet' = Raised("delete_conversation", c)
                   /\ UNCHANGED <<conversations, messages, deleted>>
              ELSE IF ConvExists(c) /\ ~Failed(tr)
                   THEN /\ conversations' = {cv \in conversations : cv.id # c}
                        /\ messages' = CascadeDelete(messages, c)
                        /\ deleted' = deleted \cup {c}
                        /\ dbRet' = Ret("delete_conversation", c, "bool", 0,
                                        TRUE, <<>>, Len(MessagesOf(messages, c)))
                   ELSE /\ dbRet' = Ret("delete_conversation", c, "bool", 0,
                                        FALSE, <<>>, 0)
                        /\ UNCHANGED <<conversations, messages, deleted>>
    /\ UNCHANGED <<nextConvId, nextMsgId>>
    /\ UNCHANGED <<llmVars, cfgVars, docVars, appVars>>

\* update_conversation_metadata(conversation_id, metadata)
UpdateConversationMetadata(c, md, fault) ==
    /\ LET tr == FinallyClose(ExceptRollback(FindAndCommit(c, "set", fault)))
       IN  /\ dbTrace' = tr
           /\ IF Unbound(tr)
              THEN /\ dbRet' = Raised("update_conversation_metadata", c)
                   /\ UNCHANGED conversations
              ELSE IF ConvExists(c) /\ ~Failed(tr)
                   THEN /\ conversations' =
                              {IF cv.id = c THEN [cv EXCEPT !.metadata = md]
                                            ELSE cv : cv \in conversations}
                        /\ dbRet' = Ret("update_conversation_metadata", c,
                                        "bool", 0, TRUE, <<>>, 0)
                   ELSE /\ dbRet' = Ret("update_conversation_metadata", c,
                                        "bool", 0, FALSE, <<>>, 0)
                        /\ UNCHANGED conversations
    /\ UNCHANGED <<messages, nextConvId, nextMsgId, deleted>>
    /\ UNCHANGED <<llmVars, cfgVars, docVars, appVars>>

\* the try block of the three read operations
ReadOnly(fault) ==
    Then(Acquire(fault), IF fault = "query" THEN "query!" ELSE "query")

\* get_conversation_messages(conversation_id)
GetConversationMessages(c, fault) ==
    /\ LET tr == FinallyClose(ReadOnly(fault))
       IN  /\ dbTrace' = tr
           /\ dbRet' =
                 IF Unbound(tr) THEN Raised("get_conversation_messages", c)
                 ELSE Ret("get_conversation_messages", c, "list", 0, FALSE,
                          IF Failed(tr) THEN <<>>
                          ELSE QueryMessages(messages, c, DefaultLimit), 0)
    /\ UNCHANGED <<conversations, messages, nextConvId, nextMsgId, deleted>>
    /\ UNCHANGED <<llmVars, cfgVars, docVars, appVars>>

\* get_conversation_by_session_id(session_id): the dict of the row, or None
GetConversationBySessionId(sid, fault) ==
    /\ LET tr == FinallyClose(ReadOnly(fault))
           found == {cv \in conversations : cv.session_id = sid}
       IN  /\ dbTrace' = tr
           /\ dbRet' =
                 IF Unbound(tr)
                 THEN Raised("get_conversation_by_session_id", 0)
                 ELSE IF Failed(tr) \/ found = {}
                      THEN RetNone("get_conversation_by_session_id", 0)
                      ELSE Ret("get_conversation_by_session_id", 0, "dict",
                               (CHOOSE cv \in found : TRUE).id, FALSE, <<>>, 0)
    /\ UNCHANGED <<conversations, messages, nextConvId, nextMsgId, deleted>>
    /\ UNCHANGED <<llmVars, cfgVars, docVars, appVars>>

\* get_conversation_stats(conversation_id): total_messages in n, then
\* user_messages and assistant_messages
GetConversationStats(c, fault) ==
    /\ LET tr == FinallyClose(ReadOnly(fault))
           rows == MessagesOf(messages, c)
           count(role) == Len(SelectSeq(rows, LAMBDA m : m.role = role))
       IN  /\ dbTrace' = tr
           /\ dbRet' =
                 IF Unbound(tr) THEN Raised("get_conversation_stats", c)
                 ELSE IF Failed(tr) THEN RetNone("get_conversation_stats", c)
                 ELSE Ret("get_conversation_stats", c, "dict", 0, FALSE,
                          <<count("user"), count("assistant")>>, Len(rows))
    /\ UNCHANGED <<conversations, messages, nextConvId, nextMsgId, deleted>>
    /\ UNCHANGED <<llmVars, cfgVars, docVars, appVars>>

DBInit ==
    /\ conversations = {}
    /\ messages = <<>>
    /\ nextConvId = 1
    /\ nextMsgId = 1
    /\ deleted = {}
    /\ dbRet = NoRet
    /\ dbTrace = <<>>

\* the operations that add and remove rows, for any mix of conversations
DBNext ==
    \/ \E sid \in SessionIds, fault \in Faults : CreateConversation(sid, fault)
    \/ \E c \in ConvIds, role \in Roles, fault \in Faults :
          SaveMessage(c, role, fault)
    \/ \E c \in ConvIds, fault \in Faults : DeleteConversation(c, fault)
    \/ \E c \in ConvIds, fault \in {"none", "connect"} :
          GetConversationMessages(c, fault)

\* all seven operations with every fault, for one browser session's
\* conversation
StoreNext ==
    \/ \E fault \in Faults : CreateConversation("s1", fault)
    \/ \E c \in ConvIds, fault \in Faults : SaveMessage(c, "user", fault)
    \/ \E c \in ConvIds, fault \in WriteFaults : DeleteConversation(c, fault)
    \/ \E c \in ConvIds, md \in Metadatas, fault \in WriteFaults :
          UpdateConversationMetadata(c, md, fault)
    \/ \E c \in ConvIds, fault \in ReadFaults : GetConversationMessages(c, fault)
    \/ \E sid \in SessionIds, fault \in ReadFaults :
          GetConversationBySessionId(sid, fault)
    \/ \E c \in ConvIds, fault \in ReadFaults : GetConversationStats(c, fault)

----------------------------------------------------------------------------
(* app.py: the front end *)

\* the session_id of the browser session (a uuid4)
AppSessionId == "s1"

\* user_input values that start a turn
Prompts == {<<"p">>}

\* files st.file_uploader(type=['pdf','png','jpg','jpeg','txt','csv']) hands
\* over: a text file, an image, a file whose read() raises
AppFiles ==
    {[name |-> Name(<<"report", "txt">>), size |-> Size(1024),
      bytes |-> <<97, 32>>, broken |-> FALSE, pos |-> 0,
      plumber |-> PdfRaises, pypdf |-> PdfRaises, libEnd |-> 0],
     [name |-> Name(<<"report", "png">>), size |-> Size(1024),
      bytes |-> <<97, 32>>, broken |-> FALSE, pos |-> 0,
      plumber |-> PdfRaises, pypdf |-> PdfRaises, libEnd |-> 0],
     [name |-> Name(<<"report", "csv">>), size |-> Size(1024),
      bytes |-> <<97, 32>>, broken |-> TRUE, pos |-> 0,
      plumber |-> PdfRaises, pypdf |-> PdfRaises, libEnd |-> 0]}

\* what the provider does during a turn of the front end
AppContents == {PyStr(<<" ">>), PyStr(<<"a">>)}
AppErrors ==
    {RateLimitError, Outcome("api", FALSE, 0, "connection error", NoResponse)}
AppOpenOutcomes == {Outcome("response", FALSE, 0, "", NoResponse)} \cup AppErrors
AppChunkEvents ==
    {Outcome("chunk", FALSE, 0, "", [NoResponse EXCEPT !.content = c]) :
        c \in AppContents}
    \cup {Outcome("end", FALSE, 0, "", NoResponse)} \cup AppErrors
AppRetryOutcomes ==
    {Outcome("response", FALSE, 0, "",
             [hasChoices |-> TRUE, hasMessage |-> TRUE,
              content |-> PyStr(<<"a">>)]),
     RateLimitError}

\* the second argument of save_message for the user message, before it is
\* evaluated
Unevaluated == [tag |-> "unevaluated", bytes |-> <<>>]

NoTurn ==
    [prompt |-> <<>>, file_content |-> PyNone, full_prompt |-> <<>>,
     payload |-> Unevaluated, userSave |-> "none", userMsgId |-> 0,
     msgsBefore |-> 0, requests |-> 0, fragments |-> <<>>, ended |-> Pending,
     response |-> Pending, shown |-> Pending, asstSave |-> "none",
     asstMsgId |-> 0]

\* handle_file_upload: `if text_content:` keeps the text, else None
FileContent(value) == IF Truthy(value) THEN value ELSE PyNone

\* stream_response: full_prompt += f"\n\nDocument Content:\n{file_content}"
FullPrompt(prompt, file_content) ==
    IF Truthy(file_content)
    THEN prompt \o <<"\n\nDocument Content:\n">> \o file_content.s
    ELSE prompt

\* stream_response: `if chunk and chunk.strip(): response_text += chunk`
RECURSIVE Accumulate(_)
Accumulate(frags) ==
    IF frags = <<>> THEN <<>>
    ELSE (IF Head(frags) # <<>> /\ Strip(Head(frags)) # <<>>
          THEN Head(frags) ELSE <<>>)
         \o Accumulate(Tail(frags))

\* the exception a store operation raised: UnboundLocalError from `if db:`,
\* or the database error re-raised by the except clause
StoreException(tr) ==
    IF Unbound(tr) THEN "UnboundLocalError" ELSE "SQLAlchemyError"

\* `except Exception as e:` around save_message and create_conversation
CatchesDatabaseErrors(exc) == exc = "SQLAlchemyError"
CatchesException(exc) == TRUE

\* save_message(...) of the user message stores the text typed
SavesFullPrompt(prompt, file_content) == FullPrompt(prompt, file_content)
SavedUserContent(prompt, file_content) == prompt

\* handle_file_upload(uploaded_file) at the top of every script run: the
\* uploader hands over file object f
ProcessUploadedFile(f) ==
    LET r == ProcessDocumentRun(f)
    IN  /\ docRun' = Call(r, f.pos)
        /\ docPrev' = docRun.run.value
        /\ doc_pc' = "processed"
        /\ docCalls' = docCalls + 1

\* lines 340-346: create_conversation while conversation_id is None
InitConversation(fault) ==
    IF conversation_id = 0
    THEN /\ CreateConversationCall(AppSessionId, fault)
         /\ IF dbRet'.kind = "id"
            THEN /\ conversation_id' = dbRet'.id
                 /\ notices' = {"success: conversation initialized"}
                 /\ app_pc' = "idle"
            ELSE /\ conversation_id' = 0
                 /\ IF CatchesException(StoreException(dbTrace'))
                    THEN /\ notices' = {"warning: could not initialize database connection"}
                         /\ app_pc' = "idle"
                    ELSE /\ notices' = {}
                         /\ app_pc' = "crashed"
    ELSE /\ fault = "none"
         /\ UNCHANGED <<dbVars, conversation_id>>
         /\ notices' = {}
         /\ app_pc' = "idle"

\* a script run of main() with no turn to handle: the first run of the
\* session, and the run st.rerun() starts after a turn
PageRun(fault) ==
    /\ app_pc \in {"start", "rerun"}
    /\ IF doc_pc = "none"
       THEN UNCHANGED docVars
       ELSE /\ ProcessUploadedFile(file)
            /\ file' = [file EXCEPT !.pos = ProcessDocumentRun(file).pos]
    /\ InitConversation(fault)
    /\ turn' = NoTurn
    /\ UNCHANGED <<history, turns, llmVars, cfgVars>>

\* the user uploads a file: the script runs with the new file object
UploadFile(f, fault) ==
    /\ app_pc = "idle"
    /\ doc_pc = "none"
    /\ ProcessUploadedFile(f)
    /\ file' = [f EXCEPT !.pos = ProcessDocumentRun(f).pos]
    /\ InitConversation(fault)
    /\ UNCHANGED <<history, turns, turn, llmVars, cfgVars>>

\* `uploaded_file.read() if uploaded_file else None`, on the file object as
\* handle_file_upload left it
ReadPayload(f) ==
    IF doc_pc = "none" THEN [tag |-> "None", bytes |-> <<>>]
    ELSE IF f.broken THEN [tag |-> "raise", bytes |-> <<>>]
    ELSE [tag |-> "bytes", bytes |-> ReadRest(f)]

\* the user presses send with a prompt: the script run up to the call of
\* stream_response (lines 305-323)
Submit(prompt, fault) ==
    /\ app_pc = "idle"
    /\ turns < MaxTurns
    /\ LET r == ProcessDocumentRun(file)
           f1 == [file EXCEPT !.pos = r.pos]
           fc == IF doc_pc = "none" THEN PyNone ELSE FileContent(r.value)
           payload == IF conversation_id = 0 THEN Unevaluated
                      ELSE ReadPayload(f1)
           base == [NoTurn EXCEPT !.prompt = prompt, !.file_content = fc,
                                  !.full_prompt = FullPrompt(prompt, fc),
                                  !.payload = payload,
                                  !.msgsBefore = Len(messages)]
       IN  /\ IF doc_pc = "none" THEN UNCHANGED <<docRun, docPrev, doc_pc, docCalls>>
                                 ELSE ProcessUploadedFile(file)
           /\ file' = IF doc_pc = "none" THEN file
                      ELSE IF payload.tag = "bytes"
                           THEN [f1 EXCEPT !.pos = Len(f1.bytes)]
                           ELSE f1
           /\ history' = Append(history, [role |-> "user", content |-> prompt])
           /\ IF conversation_id = 0
              THEN /\ fault = "none"
                   /\ UNCHANGED dbVars
                   /\ turn' = [base EXCEPT !.userSave = "skipped"]
                   /\ notices' = {}
                   /\ app_pc' = "streaming"
              ELSE IF payload.tag = "raise"
                   THEN /\ fault = "none"
                        /\ UNCHANGED dbVars
                        /\ turn' = [base EXCEPT !.userSave = "warned"]
                        /\ notices' = {"warning: could not save message"}
                        /\ app_pc' = "streaming"
                   ELSE /\ SaveMessageCall(
                               conversation_id, "user",
                               SavedUserContent(prompt, fc),
                               IF payload.tag = "bytes" THEN Data(payload.bytes)
                                                        ELSE NoData,
                               fault)
                        /\ IF dbRet'.kind = "id"
                           THEN /\ turn' = [base EXCEPT !.userSave = "saved",
                                                        !.userMsgId = dbRet'.id]
                                /\ notices' = {}
                                /\ app_pc' = "streaming"
                           ELSE /\ turn' = [base EXCEPT !.userSave = "warned"]
                                /\ IF CatchesException(StoreException(dbTrace'))
                                   THEN /\ notices' = {"warning: could not save message"}
                                        /\ app_pc' = "streaming"
                                   ELSE /\ notices' = {}
                                        /\ app_pc' = "crashed"
    /\ turns' = turns + 1
    /\ UNCHANGED <<conversation_id, llmVars, cfgVars>>

\* stream_response pulls on the generator: the model client moves, the
\* front end waits
AppStreamOpen(o) ==
    /\ app_pc = "streaming"
    /\ StreamOpenCall(o)
    /\ UNCHANGED <<cfgVars, docVars, dbVars, appVars>>

AppStreamChunk(ev) ==
    /\ app_pc = "streaming"
    /\ StreamChunkCall(ev)
    /\ UNCHANGED <<cfgVars, docVars, dbVars, appVars>>

AppRetry(o) ==
    /\ app_pc = "streaming"
    /\ RetryCall(o)
    /\ UNCHANGED <<cfgVars, docVars, dbVars, appVars>>

\* the generator has ended: the rest of stream_response and of the turn
\* (lines 242-253 and 325-338)
FinishTurn(fault) ==
    /\ app_pc = "streaming"
    /\ llm_pc = "done"
    /\ LET raised == result.tag = "raise"
           response == IF raised THEN PyNone ELSE PyStr(Accumulate(yielded))
           shown == IF raised
                    THEN PyStr(<<"Error generating response: ", result.s[1]>>)
                    ELSE response
           done == [turn EXCEPT !.requests = Len(log), !.fragments = yielded,
                                !.ended = result, !.response = response,
                                !.shown = shown]
           error == IF raised THEN {"error: generating response"} ELSE {}
       IN  IF Truthy(response)
           THEN /\ history' = Append(history, [role |-> "assistant",
                                               content |-> response.s])
                /\ IF conversation_id = 0
                   THEN /\ fault = "none"
                        /\ UNCHANGED dbVars
                        /\ turn' = [done EXCEPT !.asstSave = "skipped"]
                        /\ notices' = notices \cup error
                        /\ app_pc' = "rerun"
                   ELSE /\ SaveMessageCall(conversation_id, "assistant",
                                           response.s, NoData, fault)
                        /\ IF dbRet'.kind = "id"
                           THEN /\ turn' = [done EXCEPT !.asstSave = "saved",
                                                        !.asstMsgId = dbRet'.id]
                                /\ notices' = notices \cup error
                                /\ app_pc' = "rerun"
                           ELSE /\ turn' = [done EXCEPT !.asstSave = "warned"]
                                /\ IF CatchesException(StoreException(dbTrace'))
                                   THEN /\ notices' = notices \cup error \cup
                                               {"warning: could not save response"}
                                        /\ app_pc' = "rerun"
                                   ELSE /\ notices' = notices \cup error
                                        /\ app_pc' = "crashed"
           ELSE /\ fault = "none"
                /\ UNCHANGED <<history, dbVars>>
                /\ turn' = [done EXCEPT !.asstSave = "no response"]
                /\ notices' = notices \cup error
                /\ app_pc' = "rerun"
    /\ llm_pc' = "idle"
    /\ caller' = "none"
    /\ attempt' = 0
    /\ log' = <<>>
    /\ delays' = <<>>
    /\ delivered' = <<>>
    /\ yielded' = <<>>
    /\ caught' = NoOutcome
    /\ sigReq' = 0
    /\ result' = Pending
    /\ UNCHANGED <<client, conversation_id, turns, cfgVars, docVars>>

\* initialize_session_state
AppInit ==
    /\ app_pc = "start"
    /\ conversation_id = 0
    /\ history = <<>>
    /\ turns = 0
    /\ turn = NoTurn
    /\ notices = {}

AppNext ==
    \/ \E fault \in Faults : PageRun(fault)
    \/ app_pc = "idle" /\ \E f \in AppFiles, fault \in Faults : UploadFile(f, fault)
    \/ \E prompt \in Prompts, fault \in Faults : Submit(prompt, fault)
    \/ \E o \in AppOpenOutcomes : AppStreamOpen(o)
    \/ \E ev \in AppChunkEvents : AppStreamChunk(ev)
    \/ \E o \in AppRetryOutcomes : AppRetry(o)
    \/ \E fault \in Faults : FinishTurn(fault)

----------------------------------------------------------------------------
(* Model Client: properties *)

Last(s) == s[Len(s)]

\* the str the entry point handed to its caller last: the return value of
\* chat_completion, the last fragment of chat_completion_stream
Handed(v) ==
    IF caller = "stream"
    THEN result.tag # "raise" /\ yielded # <<>> /\ Last(yielded) = v
    ELSE result = PyStr(v)

AllRateLimited == \A i \in 1..Len(log) : log[i].kind = "ratelimit"

\* the classification of section 4.2, which covers an error with no status code
Classification(e) ==
    IF e.hasStatus /\ e.status = 401 THEN MsgAuth
    ELSE IF e.hasStatus /\ e.status = 403 THEN MsgForbidden
    ELSE IF e.hasStatus /\ e.status = 429 THEN MsgHighDemand
    ELSE IF e.hasStatus /\ e.status >= 500 THEN MsgUnavailable
    ELSE MsgError(e.desc)

\* C1: every provider API error caught by chat_completion or
\* chat_completion_stream, with any status code or with none, ends the call
\* with its classification string and never with an exception.
C1_ApiErrorClassified ==
    (llm_pc = "done" /\ caught.kind = "api") => Handed(Classification(caught))

\* C2: when the first blocking request and every retry are rate-limited,
\* chat_completion returns the high-demand placeholder after exactly
\* max_retries further requests, and the waits are retry_delay, then double
\* each time.
C2_BackoffExhausted ==
    (llm_pc = "done" /\ caller = "blocking" /\ AllRateLimited) =>
        /\ result = PyStr(MsgHighDemand)
        /\ Len(log) = 1 + client.max_retries
        /\ Len(delays) = client.max_retries
        /\ delays[1] = client.retry_delay
        /\ \A k \in 2..Len(delays) : delays[k] = 2 * delays[k - 1]

C2_Witness ==
    /\ llm_pc = "done"
    /\ caller = "blocking"
    /\ AllRateLimited
    /\ Len(log) = 4
    /\ delays = <<1, 2, 4>>

RECURSIVE NTruthy(_)
NTruthy(cs) ==
    IF cs = <<>> THEN 0
    ELSE (IF Head(cs).tag = "str" /\ Head(cs).s # <<>> THEN 1 ELSE 0)
         + NTruthy(Tail(cs))

StreamRateLimited == caller = "stream" /\ caught.kind = "ratelimit"

\* C3 as stated: after a rate-limit signal in chat_completion_stream no further
\* request is issued, and the one fragment that follows is the high-demand
\* placeholder.
C3_NoRequestAfterSignal ==
    StreamRateLimited =>
        /\ Len(log) = sigReq
        /\ llm_pc = "done" =>
              /\ Len(yielded) = NTruthy(delivered) + 1
              /\ Last(yielded) = MsgHighDemand

\* C3 as the code has it: after a rate-limit signal in chat_completion_stream
\* the generator runs the blocking retry policy (up to max_retries further
\* requests), then yields exactly one more fragment and ends normally.  The
\* fragment is the high-demand placeholder when all max_retries retries were
\* rate-limited, what _validate_response makes of the retry that was answered,
\* or the generic message of the retry that failed otherwise.
C3_StreamRetriesThenOneFragment ==
    StreamRateLimited =>
        /\ Len(log) - sigReq = Len(delays)
        /\ Len(delays) <= client.max_retries
        /\ llm_pc = "retry" => Len(yielded) = NTruthy(delivered)
        /\ llm_pc = "done" =>
              /\ result = PyNone
              /\ Len(yielded) = NTruthy(delivered) + 1
              /\ Len(delays) >= 1
              /\ \A i \in (sigReq + 1)..(Len(log) - 1) : log[i].kind = "ratelimit"
              /\ Last(log).kind = "ratelimit" =>
                    /\ Len(delays) = client.max_retries
                    /\ Last(yielded) = MsgHighDemand
              /\ Last(log).kind = "response" =>
                    Last(yielded) = ValidateResponse(Last(log).resp).s
              /\ Last(log).kind \in {"api", "exception"} =>
                    Last(yielded) = MsgError(Last(log).desc)

C3_Witness ==
    /\ StreamRateLimited
    /\ llm_pc = "done"
    /\ Len(delivered) >= 1
    /\ Len(log) = sigReq + 2
    /\ Last(log).kind = "response"
    /\ Last(yielded) = <<"a">>

\* C4: for every provider response, chat_completion returns a non-empty str:
\* the content, or a placeholder.
C4_ResponseNeverEmpty ==
    (llm_pc = "done" /\ caller = "blocking" /\ Len(log) = 1
        /\ log[1].kind = "response") =>
        /\ result.tag = "str"
        /\ result.s # <<>>

RECURSIVE NonEmptyContents(_)
NonEmptyContents(cs) ==
    IF cs = <<>> THEN <<>>
    ELSE IF Head(cs).tag = "str" /\ Head(cs).s # <<>>
         THEN <<Head(cs).s>> \o NonEmptyContents(Tail(cs))
         ELSE NonEmptyContents(Tail(cs))

RECURSIVE FullContent(_)
FullContent(cs) ==
    IF cs = <<>> THEN <<>>
    ELSE (IF Head(cs).tag = "str" THEN Head(cs).s ELSE <<>>)
         \o FullContent(Tail(cs))

StreamNoError == caller = "stream" /\ caught = NoOutcome

\* C5: while the provider stream raises nothing, the fragments yielded are the
\* non-empty chunk contents in arrival order, their concatenation is the
\* concatenation of the chunk contents, and the generator ends normally when
\* the upstream stream ends.
C5_StreamConcat ==
    StreamNoError =>
        /\ yielded = NonEmptyContents(delivered)
        /\ Concat(yielded) = FullContent(delivered)
        /\ llm_pc = "done" => result = PyNone

C5_Witness ==
    /\ StreamNoError
    /\ llm_pc = "done"
    /\ \E i, j, k \in 1..Len(delivered) :
          /\ delivered[i] = PyNone
          /\ delivered[j] = PyStr(<<" ">>)
          /\ delivered[k] = PyStr(<<"a">>)
    /\ Len(yielded) = 2

\* the streaming response contributed content: a chunk's content was yielded
StreamContentYielded == NTruthy(delivered) >= 1

\* request i was answered by a response whose content the call handed on
ResponseContentYielded(i) ==
    /\ log[i].kind = "response"
    /\ log[i].resp.hasChoices
    /\ log[i].resp.hasMessage
    /\ log[i].resp.content.tag = "str"
    /\ log[i].resp.content.s # <<>>

\* C19: the fragments of one chat_completion_stream call carry the content of
\* at most one provider response: once chunks of the streamed response have
\* been yielded, no fragment that follows an error carries the content of
\* another response.
C19_OneResponsePerStream ==
    (caller = "stream" /\ llm_pc = "done") =>
        ~(StreamContentYielded
            /\ \E i \in 2..Len(log) : ResponseContentYielded(i))

\* C14: update_config sets exactly the fields among max_tokens, temperature
\* and model that are supplied, each to the supplied value; max_retries,
\* retry_delay, the credential and every recognized field not supplied keep
\* their values, and a call with only unrecognized keys changes nothing.
C14_UpdateConfigFrame ==
    cfgCall.called =>
        LET kw == cfgCall.kwargs
            b == cfgCall.before
        IN  /\ kw.max_tokens.given => client.max_tokens = kw.max_tokens.v
            /\ ~kw.max_tokens.given => client.max_tokens = b.max_tokens
            /\ kw.temperature.given => client.temperature = kw.temperature.v
            /\ ~kw.temperature.given => client.temperature = b.temperature
            /\ kw.model.given => client.model = kw.model.v
            /\ ~kw.model.given => client.model = b.model
            /\ client.max_retries = b.max_retries
            /\ client.retry_delay = b.retry_delay
            /\ client.api_key = b.api_key
            /\ (~kw.max_tokens.given /\ ~kw.temperature.given
                    /\ ~kw.model.given) => client = b

C14_Witness ==
    /\ cfgCall.called
    /\ cfgCall.kwargs.max_tokens = Given(100)
    /\ ~cfgCall.kwargs.temperature.given
    /\ cfgCall.kwargs.max_retries = Given(5)
    /\ cfgCall.before.max_tokens = 8192
    /\ cfgCall.before.temperature = "0.2"
    /\ client.max_tokens = 100
    /\ client.temperature = "0.2"
    /\ client.max_retries = 3

----------------------------------------------------------------------------
(* Document Extractor: properties *)

Processed == doc_pc = "processed"
DocValue == docRun.run.value

HasExt(name) ==
    /\ name.present
    /\ Len(name.segs) >= 2
    /\ \E i \in 1..(Len(name.segs) - 1) : name.segs[i] # ""

\* the files section 4.1 has validation reject (and those whose size cannot be
\* compared)
Rejectable(f) ==
    \/ ~f.size.ok
    \/ f.size.n > MaxFileSize
    \/ ~f.name.present
    \/ f.name.segs = <<"">>
    \/ NameLen(f.name) > 255
    \/ /\ HasExt(f.name)
       /\ LowerSeg(Last(f.name.segs)) \in
              {"exe", "bat", "cmd", "com", "scr", "vbs", "js"}

\* C6 as stated: a file that fails validation gets a rejection placeholder
\* string, with no read of its content and no extraction routine invoked.
C6_RejectedGetsString ==
    (Processed /\ Rejectable(file)) =>
        /\ DocValue.tag = "str"
        /\ docRun.run.reads = 0
        /\ docRun.run.invoked = {}

\* C6 as the code has it: for a file that fails validation process_document
\* returns None (no string), reads nothing and invokes no format-specific
\* routine.
C6_RejectedGetsNone ==
    (Processed /\ Rejectable(file)) =>
        /\ DocValue = PyNone
        /\ docRun.run.reads = 0
        /\ docRun.run.invoked = {}
        /\ ~docRun.run.fallback.ran

C6_Witness ==
    /\ Processed
    /\ file.name = Name(<<"report", "EXE">>)
    /\ file.size = Size(1024)
    /\ file.bytes # <<>>
    /\ DocValue = PyNone

ErrorPrefixes ==
    {"Error processing document: ", "Error extracting text from PDF: ",
     "Error processing PDF file: ", "Error reading file content: ",
     "Error processing image file: ", "Error processing spreadsheet file: "}

PrimaryYields(f) ==
    /\ ~f.broken
    /\ ~f.plumber.raises
    /\ \E i \in 1..Len(f.plumber.pages) :
          f.plumber.pages[i].tag = "str" /\ f.plumber.pages[i].s # <<>>

FallbackYields(f) ==
    /\ ~f.broken
    /\ ~f.pypdf.raises
    /\ \E i \in 1..Len(f.pypdf.pages) :
          f.pypdf.pages[i].tag = "str" /\ f.pypdf.pages[i].s # <<>>

TextFailed == "extract_text_from_file" \in docRun.run.invoked /\ file.broken
PdfFailed ==
    /\ "extract_text_from_pdf" \in docRun.run.invoked
    /\ ~PrimaryYields(file)
    /\ file.broken \/ file.pypdf.raises

\* C7: process_document always returns a value (a str or None) and never
\* raises; a failure of the text routine or of both PDF methods comes back as
\* that routine's own "Error ..." string, and no output of a routine that
\* succeeded begins with such a literal.
C7_NeverRaises ==
    Processed =>
        /\ DocValue.tag \in {"str", "None"}
        /\ TextFailed => DocValue = PyStr(MsgReadError(IoDesc))
        /\ PdfFailed =>
              DocValue = PyStr(MsgPdfError(IF file.broken THEN IoDesc
                                           ELSE file.pypdf.desc))
        /\ (TextFailed \/ PdfFailed) => Head(DocValue.s) \in ErrorPrefixes
        /\ (docRun.run.invoked # {} /\ ~TextFailed /\ ~PdfFailed) =>
              DocValue.s = <<>> \/ Head(DocValue.s) \notin ErrorPrefixes

C7_Witness ==
    /\ Processed
    /\ TextFailed
    /\ DocValue = PyStr(MsgReadError(IoDesc))

\* the non-empty page texts, each trimmed
TrimmedPages(pages) ==
    LET ne == SelectSeq(pages, LAMBDA p : p.tag = "str" /\ p.s # <<>>)
    IN  [i \in 1..Len(ne) |-> Strip(ne[i].s)]

\* joined with a blank line
RECURSIVE JoinBlank(_)
JoinBlank(ts) ==
    IF Len(ts) = 0 THEN <<>>
    ELSE IF Len(ts) = 1 THEN ts[1]
         ELSE JoinBlank(SubSeq(ts, 1, Len(ts) - 1)) \o <<"\n\n">> \o Last(ts)

PdfRan == Processed /\ "extract_text_from_pdf" \in docRun.run.invoked

\* C8: when the primary PDF method raises or yields no page text and the
\* fallback yields some, the result is the fallback's non-empty page texts,
\* trimmed and joined with a blank line, and the fallback was given the file
\* at position 0; when the primary method yields text the fallback is not run.
C8_FallbackOutput ==
    PdfRan =>
        /\ (~PrimaryYields(file) /\ FallbackYields(file)) =>
              /\ DocValue = PyStr(JoinBlank(TrimmedPages(file.pypdf.pages)))
              /\ docRun.run.fallback = [ran |-> TRUE, pos |-> 0]
        /\ PrimaryYields(file) =>
              /\ DocValue = PyStr(JoinBlank(TrimmedPages(file.plumber.pages)))
              /\ ~docRun.run.fallback.ran
              /\ docRun.run.reads = 1

C8_Witness ==
    /\ PdfRan
    /\ ~file.plumber.raises
    /\ ~PrimaryYields(file)
    /\ file.libEnd = 2
    /\ docRun.start = 2
    /\ file.pypdf.pages = <<PyStr(<<" ", "a">>), PyStr(<<"b">>)>>
    /\ DocValue = PyStr(<<"a", "\n\n", "b">>)
    /\ docRun.run.fallback.ran

\* the outcomes C9 names, read off the file and the position the call began at
OutcomeClass ==
    LET f == file
        ext == GetFileExtension(f.name)
    IN  IF Rejectable(f) THEN "rejected"
        ELSE IF ext \notin PdfFormats \cup ImageFormats \cup TextFormats
                              \cup SpreadsheetFormats
             THEN "unsupported"
        ELSE IF ext \in TextFormats /\ ~f.broken
                /\ \A i \in (docRun.start + 1)..Len(f.bytes) : f.bytes[i] = 32
             THEN "empty"
        ELSE IF ext \in PdfFormats /\ ~f.broken /\ ~f.plumber.raises
                /\ ~f.pypdf.raises /\ ~PrimaryYields(f) /\ ~FallbackYields(f)
             THEN "notext"
        ELSE IF ext \in PdfFormats /\ (f.broken \/ f.plumber.raises)
                /\ (f.broken \/ f.pypdf.raises)
             THEN "bothraised"
        ELSE "other"

AllExts == {GetFileExtension(n) : n \in OtherNames \cup PdfNames}

\* the values each outcome can come back as
OutcomeValues(c) ==
    CASE c = "rejected" -> {PyNone}
      [] c = "unsupported" -> {PyStr(MsgUnsupported(e)) : e \in AllExts}
      [] c = "empty" -> {PyStr(MsgEmptyFile)}
      [] c = "notext" -> {PyStr(MsgNoPdfText)}
      [] c = "bothraised" -> {PyStr(MsgPdfError(d)) : d \in {IoDesc, "bad pdf"}}

NamedOutcomes == {"rejected", "unsupported", "empty", "notext", "bothraised"}

\* C9: a PDF in which neither method finds page text gives the fixed no-text
\* message, and the five outcomes (no text in PDF, unsupported format, empty
\* text file, both PDF methods raised, validation rejected) come back as
\* values no two of which can be equal.
C9_OutcomesDistinct ==
    (Processed /\ OutcomeClass \in NamedOutcomes) =>
        /\ OutcomeClass = "notext" =>
              DocValue = PyStr(<<"No text content could be extracted from this PDF file.">>)
        /\ DocValue \in OutcomeValues(OutcomeClass)
        /\ \A c \in NamedOutcomes \ {OutcomeClass} :
              DocValue \notin OutcomeValues(c)

C9_Witness ==
    /\ Processed
    /\ OutcomeClass = "notext"
    /\ file.plumber.pages = <<PyNone>>
    /\ file.pypdf.pages = <<PyNone, PyNone>>
    /\ DocValue = PyStr(MsgNoPdfText)

SupportedFormats ==
    PdfFormats \cup ImageFormats \cup TextFormats \cup SpreadsheetFormats

\* C20: a second process_document call on the same file object, whatever
\* read position the first call left behind, returns what the first call
\* returned, for every supported category.
C20_Repeatable ==
    (Processed /\ docCalls >= 2
        /\ GetFileExtension(file.name) \in SupportedFormats) =>
        DocValue = docPrev

----------------------------------------------------------------------------
(* Conversation Store: properties *)

\* C10: every stored Message references an existing Conversation, and once
\* delete_conversation(c) has returned True no message of c is stored and
\* get_conversation_messages(c) returns the empty list.
C10_NoOrphans ==
    /\ \A i \in 1..Len(messages) :
          \E cv \in conversations : cv.id = messages[i].conversation_id
    /\ \A c \in deleted :
          /\ \A i \in 1..Len(messages) : messages[i].conversation_id # c
          /\ QueryMessages(messages, c, DefaultLimit) = <<>>
    /\ (dbRet.op = "get_conversation_messages" /\ dbRet.kind = "list"
           /\ dbRet.arg \in deleted) => dbRet.list = <<>>
    /\ (dbRet.op = "delete_conversation" /\ dbRet.kind = "bool" /\ dbRet.bool) =>
          dbRet.arg \in deleted

C10_Witness ==
    /\ dbRet.op = "delete_conversation"
    /\ dbRet.kind = "bool"
    /\ dbRet.bool
    /\ dbRet.n = 2
    /\ Len(messages) = 1
    /\ messages[1].conversation_id # dbRet.arg
    /\ Cardinality(conversations) = 1

\* a write operation: it adds, changes or deletes rows
WriteOps ==
    {"create_conversation", "save_message", "update_conversation_metadata",
     "delete_conversation"}

Closes(tr) == Len(SelectSeq(tr, LAMBDA e : e = "close"))

\* C16: an operation that acquired a session closes it exactly once, as the
\* last thing it does, on every exit path; a write operation that failed after
\* acquiring the session rolls back before it closes and leaves every table
\* as it was.
C16_SessionClosed ==
    [][LET tr == dbTrace'
           failed == \E i \in 1..Len(tr) : tr[i] \in {"query!", "commit!"}
       IN  (tr # <<>> /\ tr[1] = "open") =>
               /\ tr[Len(tr)] = "close"
               /\ Closes(tr) = 1
               /\ (failed /\ dbRet'.op \in WriteOps) =>
                     /\ Len(tr) >= 3
                     /\ tr[Len(tr) - 1] = "rollback"
                     /\ tr[Len(tr) - 2] \in {"query!", "commit!"}
               /\ failed =>
                     UNCHANGED <<conversations, messages, nextConvId, nextMsgId>>
      ]_vars

C16_Witness ==
    /\ dbRet.op = "save_message"
    /\ dbRet.kind = "raise"
    /\ dbTrace = <<"open", "add", "commit!", "rollback", "close">>
    /\ conversations # {}
    /\ Len(messages) = 1

\* the operations whose except clause returns a failure value
AbsorbingOps ==
    {"get_conversation_messages", "get_conversation_by_session_id",
     "get_conversation_stats", "update_conversation_metadata",
     "delete_conversation"}

\* C17: when get_db_session raises, get_conversation_messages returns the
\* empty list, get_conversation_by_session_id and get_conversation_stats
\* return None, and update_conversation_metadata and delete_conversation
\* return False; none of them raises.
C17_ConnectFailureAbsorbed ==
    (dbRet.op \in AbsorbingOps /\ dbTrace # <<>> /\ dbTrace[1] = "connect!") =>
        /\ dbRet.kind # "raise"
        /\ dbRet.op = "get_conversation_messages" =>
              dbRet.kind = "list" /\ dbRet.list = <<>>
        /\ dbRet.op \in {"get_conversation_by_session_id",
                          "get_conversation_stats"} => dbRet.kind = "None"
        /\ dbRet.op \in {"update_conversation_metadata",
                          "delete_conversation"} =>
              dbRet.kind = "bool" /\ ~dbRet.bool

----------------------------------------------------------------------------
(* Front end: properties *)

\* the turn has been handled: stream_response has returned and the script
\* has reached st.rerun()
TurnDone == app_pc = "rerun"

\* the generator ended without raising into stream_response
StreamEndedNormally == turn.ended = PyNone

\* C11: for every submitted turn the user is shown an assistant reply (the
\* answer or a placeholder) and that reply is appended to the message
\* history, also when the stream yields no fragment at all.  (Stated for the
\* turns whose generator ends without raising.)
C11_ReplyShownAndAppended ==
    (TurnDone /\ StreamEndedNormally) =>
        /\ turn.shown.tag = "str"
        /\ turn.shown.s # <<>>
        /\ Len(history) >= 2
        /\ history[Len(history)] =
              [role |-> "assistant", content |-> turn.shown.s]
        /\ history[Len(history) - 1] = [role |-> "user", content |-> turn.prompt]

\* the rows the store has gained since the turn began
TurnMessages == SubSeq(messages, turn.msgsBefore + 1, Len(messages))

UserRow ==
    [id |-> turn.userMsgId, conversation_id |-> conversation_id,
     role |-> "user", content |-> turn.prompt,
     file_data |-> IF turn.payload.tag = "bytes" THEN Data(turn.payload.bytes)
                                                 ELSE NoData]

AssistantRow ==
    [id |-> turn.asstMsgId, conversation_id |-> conversation_id,
     role |-> "assistant", content |-> turn.response.s, file_data |-> NoData]

\* C12 as stated: nothing of the turn is stored before the stream has ended,
\* and once it has ended the prompt and the response are stored, the prompt
\* first, as two Messages under the session's single Conversation.
C12_StoredOnlyAfterStream ==
    /\ app_pc = "streaming" => TurnMessages = <<>>
    /\ TurnDone =>
          /\ Len(TurnMessages) = 2
          /\ TurnMessages[1].role = "user"
          /\ TurnMessages[2].role = "assistant"
          /\ \A i \in 1..2 : TurnMessages[i].conversation_id = conversation_id
          /\ Cardinality(conversations) = 1

\* C12 as the code has it: the user prompt is stored before the streaming
\* call starts and the assistant response only after the stream has ended;
\* what a turn stores is, in this order, the prompt typed (unless its save was
\* skipped or failed) and the response (unless it was empty, or its save was
\* skipped or failed), both under the one Conversation of the session.
C12_PromptBeforeStreamResponseAfter ==
    /\ \A cv \in conversations :
          cv.id = conversation_id /\ cv.session_id = AppSessionId
    /\ \A i \in 1..Len(messages) : messages[i].conversation_id = conversation_id
    /\ app_pc = "streaming" =>
          /\ turn.userSave = "saved" => TurnMessages = <<UserRow>>
          /\ turn.userSave # "saved" => TurnMessages = <<>>
          /\ turn.userSave = "skipped" <=> conversation_id = 0
    /\ TurnDone =>
          /\ TurnMessages =
                (IF turn.userSave = "saved" THEN <<UserRow>> ELSE <<>>)
                \o (IF turn.asstSave = "saved" THEN <<AssistantRow>> ELSE <<>>)
          /\ turn.asstSave = "saved" => Truthy(turn.response)
    /\ app_pc \in {"start", "idle"} => turn = NoTurn

C12_Witness ==
    /\ app_pc = "streaming"
    /\ llm_pc = "streaming"
    /\ delivered # <<>>
    /\ doc_pc = "processed"
    /\ Truthy(turn.file_content)
    /\ TurnMessages = <<UserRow>>
    /\ UserRow.content = <<"p">>

\* C13: a failing save_message or create_conversation does not stop the turn:
\* the script never dies of it, the prompt is sent, the response is streamed
\* and enters the history exactly as it does when nothing fails, and the
\* failure shows only as a warning and as the row missing from the store.
C13_PersistenceFailureHarmless ==
    /\ app_pc # "crashed"
    /\ app_pc = "streaming" =>
          /\ history[Len(history)] = [role |-> "user", content |-> turn.prompt]
          /\ turn.userSave = "warned" =>
                "warning: could not save message" \in notices
    /\ TurnDone =>
          /\ turn.requests >= 1
          /\ StreamEndedNormally =>
                turn.response = PyStr(Accumulate(turn.fragments))
          /\ Truthy(turn.response) =>
                /\ history[Len(history)] =
                      [role |-> "assistant", content |-> turn.response.s]
                /\ history[Len(history) - 1] =
                      [role |-> "user", content |-> turn.prompt]
          /\ ~Truthy(turn.response) =>
                history[Len(history)] = [role |-> "user", content |-> turn.prompt]
          /\ turn.userSave = "warned" =>
                /\ "warning: could not save message" \in notices
                /\ \A i \in 1..Len(TurnMessages) : TurnMessages[i].role # "user"
          /\ turn.asstSave = "warned" =>
                /\ "warning: could not save response" \in notices
                /\ \A i \in 1..Len(TurnMessages) :
                      TurnMessages[i].role # "assistant"
          /\ Len(TurnMessages) =
                (IF turn.userSave = "saved" THEN 1 ELSE 0)
                + (IF turn.asstSave = "saved" THEN 1 ELSE 0)

C13_Witness ==
    /\ TurnDone
    /\ turn.userSave = "warned"
    /\ turn.asstSave = "warned"
    /\ dbTrace[1] = "connect!"
    /\ conversation_id # 0
    /\ Len(turn.fragments) >= 2
    /\ Truthy(turn.response)
    /\ Len(history) = 2
    /\ TurnMessages = <<>>
    /\ notices = {"warning: could not save message",
                  "warning: could not save response"}

\* the row save_message stored for the turn's user message
StoredUserMessage ==
    CHOOSE m \in {messages[i] : i \in 1..Len(messages)} : m.id = turn.userMsgId

\* C15: the file payload stored with the turn's user message is the complete
\* content of the uploaded file, although the Extractor has read the same
\* file object earlier in the script run.
C15_PayloadIsWholeFile ==
    (app_pc \in {"streaming", "rerun"} /\ turn.userSave = "saved"
        /\ doc_pc # "none") =>
        StoredUserMessage.file_data = Data(file.bytes)

\* C18: the text stream_response accumulates, shows in its final rendering
\* and returns is the concatenation, in order, of every fragment the
\* generator yielded; no fragment is dropped.
C18_ResponseIsConcatenation ==
    (TurnDone /\ StreamEndedNormally) =>
        /\ turn.response = PyStr(Concat(turn.fragments))
        /\ turn.shown = turn.response

----------------------------------------------------------------------------

Init == LLMInit /\ DocInit /\ DBInit /\ AppInit

Next == LLMNext \/ CfgNext \/ DocNext \/ DBNext \/ StoreNext \/ AppNext

Spec == Init /\ [][Next]_vars

\* The three components share no variable, so each is also checked on its own:
\* a property of one component's variables holds under Spec exactly when it
\* holds under that component's specification.

\* the model client alone
SpecLLM == Init /\ [][LLMNext]_vars

\* the configuration of the model client alone
SpecCfg == Init /\ [][CfgNext]_vars

\* the document extractor alone
SpecDoc == Init /\ [][DocNext]_vars

\* the conversation store alone
SpecDB == Init /\ [][DBNext]_vars

\* the conversation store alone, every operation and every fault
SpecStore == Init /\ [][StoreNext]_vars

\* the front end driving the three components
SpecApp == Init /\ [][AppNext]_vars

====
